---- MODULE Spec2Model ----
(***************************************************************************)
(* Model of Qbank2pdf: the PDF generation worker (src/pdf_processor.py)    *)
(* and the main window that starts it (src/main.py).                       *)
(*                                                                         *)
(* Python strings are TLA+ strings (Len, SubSeq, \o work on them in TLC).  *)
(* The HTML built with "html += piece" is the sequence of its pieces.      *)
(***************************************************************************)
EXTENDS Integers, Sequences, FiniteSets, TLC

(***************************************************************************)
(* Bounds of the model.                                                    *)
(***************************************************************************)
\* longest folder list handed to a PdfWorker
MaxFolders == 3
\* number of PdfWorker objects the main window may create in one behaviour
MaxWorkers == 2

(***************************************************************************)
(* Python str operations.                                                  *)
(***************************************************************************)
StartsWith(s, p) == Len(s) >= Len(p) /\ SubSeq(s, 1, Len(p)) = p

RECURSIVE Replace(_, _, _)
\* str.replace(old, new) for a non-empty old: leftmost, non-overlapping.
Replace(s, old, new) ==
    IF Len(s) = 0 THEN ""
    ELSE IF StartsWith(s, old)
         THEN new \o Replace(SubSeq(s, Len(old) + 1, Len(s)), old, new)
         ELSE SubSeq(s, 1, 1) \o Replace(SubSeq(s, 2, Len(s)), old, new)

RECURSIVE Contains(_, _)
\* "sub in s"
Contains(s, sub) ==
    IF Len(s) < Len(sub) THEN FALSE
    ELSE StartsWith(s, sub) \/ Contains(SubSeq(s, 2, Len(s)), sub)

LowerCase == "abcdefghijklmnopqrstuvwxyz"
UpperCase == "ABCDEFGHIJKLMNOPQRSTUVWXYZ"

\* 1-based position of the one-character string c in alphabet, 0 if absent.
IndexIn(c, alphabet) ==
    LET hits == {i \in 1..Len(alphabet) : SubSeq(alphabet, i, i) = c}
    IN  IF hits = {} THEN 0 ELSE CHOOSE i \in hits : \A j \in hits : i <= j

IsCased(c) == IndexIn(c, LowerCase) > 0 \/ IndexIn(c, UpperCase) > 0
ToUpper(c) == LET i == IndexIn(c, LowerCase)
              IN  IF i > 0 THEN SubSeq(UpperCase, i, i) ELSE c
ToLower(c) == LET i == IndexIn(c, UpperCase)
              IN  IF i > 0 THEN SubSeq(LowerCase, i, i) ELSE c

RECURSIVE TitleFrom(_, _)
TitleFrom(s, prevCased) ==
    IF Len(s) = 0 THEN ""
    ELSE LET c == SubSeq(s, 1, 1)
         IN  (IF prevCased THEN ToLower(c) ELSE ToUpper(c))
             \o TitleFrom(SubSeq(s, 2, Len(s)), IsCased(c))

\* str.title(): a cased character is upper-cased after an uncased one (or at
\* the start) and lower-cased after a cased one.
Title(s) == TitleFrom(s, FALSE)

RECURSIVE Basename(_)
\* os.path.basename: what follows the last "/".
Basename(p) ==
    IF Len(p) = 0 THEN ""
    ELSE IF SubSeq(p, Len(p), Len(p)) = "/" THEN ""
    ELSE Basename(SubSeq(p, 1, Len(p) - 1)) \o SubSeq(p, Len(p), Len(p))

\* os.path.join(a, b) on POSIX.
PathJoin(a, b) ==
    IF StartsWith(b, "/") THEN b
    ELSE IF a = "" \/ SubSeq(a, Len(a), Len(a)) = "/" THEN a \o b
    ELSE a \o "/" \o b

\* The display name of a module folder.
DisplayName(folder_name) ==
    IF StartsWith(folder_name, "output_")
    THEN Replace(folder_name, "output_", "Module ")
    ELSE Title(Replace(folder_name, "_", " "))

(***************************************************************************)
(* JSON values as json.load returns them, and the Python operations the    *)
(* worker applies to them.  A dict is the sequence of its (key, value)     *)
(* pairs in insertion order.                                               *)
(***************************************************************************)
JNull == [t |-> "null"]
JStr(s) == [t |-> "str", s |-> s]
JBool(b) == [t |-> "bool", b |-> b]
JList(l) == [t |-> "list", l |-> l]
JObj(p) == [t |-> "obj", p |-> p]
KV(k, v) == [k |-> k, v |-> v]

TypeName(v) == CASE v.t = "null" -> "NoneType"
                 [] v.t = "str" -> "str"
                 [] v.t = "bool" -> "bool"
                 [] v.t = "list" -> "list"
                 [] v.t = "obj" -> "dict"

\* bool(v)
Truthy(v) == CASE v.t = "null" -> FALSE
               [] v.t = "str" -> v.s # ""
               [] v.t = "bool" -> v.b
               [] v.t = "list" -> v.l # <<>>
               [] v.t = "obj" -> v.p # <<>>

DictHas(o, key) == \E i \in 1..Len(o.p) : o.p[i].k = key
\* dict.get(key, default)
DictGet(o, key, default) ==
    IF DictHas(o, key)
    THEN o.p[CHOOSE i \in 1..Len(o.p) : o.p[i].k = key].v
    ELSE default
\* d[key] = val
DictSet(o, key, val) ==
    IF DictHas(o, key)
    THEN JObj([i \in 1..Len(o.p) |-> IF o.p[i].k = key THEN KV(key, val) ELSE o.p[i]])
    ELSE JObj(Append(o.p, KV(key, val)))
\* list(d.keys())
DictKeys(o) == [i \in 1..Len(o.p) |-> o.p[i].k]

RECURSIVE JoinStr(_, _)
\* sep.join(parts)
JoinStr(parts, sep) ==
    IF Len(parts) = 0 THEN ""
    ELSE IF Len(parts) = 1 THEN parts[1]
    ELSE parts[1] \o sep \o JoinStr(Tail(parts), sep)

RECURSIVE PyRepr(_)
\* repr(v)
PyRepr(v) ==
    CASE v.t = "null" -> "None"
      [] v.t = "str" -> "'" \o v.s \o "'"
      [] v.t = "bool" -> IF v.b THEN "True" ELSE "False"
      [] v.t = "list" ->
            "[" \o JoinStr([i \in 1..Len(v.l) |-> PyRepr(v.l[i])], ", ") \o "]"
      [] v.t = "obj" ->
            "{" \o JoinStr([i \in 1..Len(v.p) |->
                    "'" \o v.p[i].k \o "': " \o PyRepr(v.p[i].v)], ", ") \o "}"

\* str(v), as an f-string formats a value
PyStr(v) == IF v.t = "str" THEN v.s ELSE PyRepr(v)

(***************************************************************************)
(* Results of code that may raise: the pieces appended to the HTML so far, *)
(* or the message of the exception raised.                                 *)
(***************************************************************************)
Ok(out) == [raised |-> FALSE, msg |-> "", out |-> out]
Raise(msg) == [raised |-> TRUE, msg |-> msg, out |-> <<>>]
Then(a, b) == IF a.raised THEN a
              ELSE IF b.raised THEN b
              ELSE Ok(a.out \o b.out)

NoAttribute(v, attr) ==
    "'" \o TypeName(v) \o "' object has no attribute '" \o attr \o "'"
NotIterable(v) == "'" \o TypeName(v) \o "' object is not iterable"

RECURSIVE CharsOf(_)
CharsOf(s) == IF Len(s) = 0 THEN <<>>
              ELSE <<JStr(SubSeq(s, 1, 1))>> \o CharsOf(SubSeq(s, 2, Len(s)))

\* "for x in v": the items iterated, or the TypeError.
Iterate(v) ==
    CASE v.t = "list" -> Ok(v.l)
      [] v.t = "str" -> Ok(CharsOf(v.s))
      [] v.t = "obj" -> Ok([i \in 1..Len(v.p) |-> JStr(v.p[i].k)])
      [] OTHER -> Raise(NotIterable(v))

(***************************************************************************)
(* The file system the worker reads: a question bank under /qb.            *)
(*   output_1   two records, the first with every optional field           *)
(*   output_2   no questions.json                                          *)
(*   my_notes   questions.json holding an empty array                      *)
(*   bad_json   questions.json that is not JSON                            *)
(*   output_10  one record                                                 *)
(*   broken_q   one record whose text is null                              *)
(* and a small one under /mini: output_3 with one record, output_4 with no *)
(* questions.json, and one under /trio: output_1 and output_3 with one     *)
(* record each, output_2 with no questions.json.  /out is the folder the   *)
(* PDFs go to.                                                             *)
(***************************************************************************)
Question1 ==
    JObj(<< KV("question_number", JStr("1")),
            KV("text", JStr("What?")),
            KV("question_media_path", JStr("media\\q1.png")),
            KV("options", JList(<<
                JObj(<<KV("text", JStr("A")), KV("is_correct_answer", JBool(FALSE))>>),
                JObj(<<KV("text", JStr("B")), KV("is_correct_answer", JBool(TRUE))>>) >>)),
            KV("labels", JList(<<JStr("tag")>>)),
            KV("explanation_elements", JList(<<
                JObj(<<KV("type", JStr("text")), KV("content", JStr("Because"))>>),
                JObj(<<KV("type", JStr("bogus"))>>),
                JObj(<<KV("type", JStr("image")), KV("path", JStr("media/gone.png"))>>),
                JObj(<<KV("type", JStr("table_processed_vlm")),
                       KV("data", JObj(<<KV("table", JList(<<
                           JObj(<<KV("a", JStr("1")), KV("b", JStr("2"))>>),
                           JObj(<<KV("a", JStr("3")), KV("c", JStr("4"))>>) >>))>>))>>) >>)) >>)
Question2 == JObj(<<KV("question_number", JStr("2"))>>)
Question3 == JObj(<< KV("question_number", JStr("3")), KV("text", JStr("Why?")),
                     KV("options", JList(<<
                         JObj(<<KV("text", JStr("X")), KV("is_correct_answer", JBool(TRUE))>>) >>)) >>)
Question4 == JObj(<<KV("question_number", JStr("4")), KV("text", JNull)>>)

Directories == { "/qb", "/qb/output_1", "/qb/output_1/media", "/qb/output_2",
                 "/qb/my_notes", "/qb/bad_json", "/qb/output_10", "/qb/broken_q",
                 "/mini", "/mini/output_3", "/mini/output_4",
                 "/trio", "/trio/output_1", "/trio/output_2", "/trio/output_3",
                 "/out" }

\* questions.json files: what json.load makes of each.
JsonLoaded(data) == [raised |-> FALSE, msg |-> "", data |-> data]
JsonDecodeError == [raised |-> TRUE,
                    msg |-> "Expecting value: line 1 column 1 (char 0)",
                    data |-> JNull]
JsonFiles ==
    [ p \in { "/qb/output_1/questions.json", "/qb/my_notes/questions.json",
              "/qb/bad_json/questions.json", "/qb/output_10/questions.json",
              "/qb/broken_q/questions.json", "/mini/output_3/questions.json",
              "/trio/output_1/questions.json", "/trio/output_3/questions.json" } |->
        CASE p = "/qb/output_1/questions.json" -> JsonLoaded(JList(<<Question1, Question2>>))
          [] p = "/qb/my_notes/questions.json" -> JsonLoaded(JList(<<>>))
          [] p = "/qb/bad_json/questions.json" -> JsonDecodeError
          [] p = "/qb/output_10/questions.json" -> JsonLoaded(JList(<<Question3>>))
          [] p = "/qb/broken_q/questions.json" -> JsonLoaded(JList(<<Question4>>))
          [] p = "/mini/output_3/questions.json" -> JsonLoaded(JList(<<Question3>>))
          [] p = "/trio/output_1/questions.json" -> JsonLoaded(JList(<<Question3>>))
          [] p = "/trio/output_3/questions.json" -> JsonLoaded(JList(<<Question2>>)) ]

\* image files: their bytes.
ImageFiles == [ p \in {"/qb/output_1/media/q1.png"} |-> <<137, 80, 78, 71>> ]

IsDir(p) ==
    \/ p \in Directories
    \/ Len(p) > 1 /\ SubSeq(p, Len(p), Len(p)) = "/"
                  /\ SubSeq(p, 1, Len(p) - 1) \in Directories
\* os.path.exists
Exists(p) == IsDir(p) \/ p \in DOMAIN JsonFiles \/ p \in DOMAIN ImageFiles

(***************************************************************************)
(* PdfWorker._image_to_base64_uri                                          *)
(***************************************************************************)
B64Alphabet == "ABCDEFGHIJKLMNOPQRSTUVWXYZabcdefghijklmnopqrstuvwxyz0123456789+/"
B64Char(n) == SubSeq(B64Alphabet, n + 1, n + 1)

RECURSIVE B64Encode(_)
\* base64.b64encode(bytes).decode()
B64Encode(b) ==
    IF Len(b) = 0 THEN ""
    ELSE IF Len(b) = 1
         THEN B64Char(b[1] \div 4) \o B64Char((b[1] % 4) * 16) \o "=="
    ELSE IF Len(b) = 2
         THEN B64Char(b[1] \div 4) \o B64Char((b[1] % 4) * 16 + b[2] \div 16)
              \o B64Char((b[2] % 16) * 4) \o "="
    ELSE B64Char(b[1] \div 4) \o B64Char((b[1] % 4) * 16 + b[2] \div 16)
         \o B64Char((b[2] % 16) * 4 + b[3] \div 64) \o B64Char(b[3] % 64)
         \o B64Encode(SubSeq(b, 4, Len(b)))

EndsWith(s, suffix) ==
    Len(s) >= Len(suffix) /\ SubSeq(s, Len(s) - Len(suffix) + 1, Len(s)) = suffix

\* mimetypes.guess_type(path)[0], "" for None
GuessType(path) ==
    CASE EndsWith(path, ".png") -> "image/png"
      [] EndsWith(path, ".jpg") -> "image/jpeg"
      [] EndsWith(path, ".gif") -> "image/gif"
      [] OTHER -> ""

\* The data URI of an image file; open() raises on a directory or a file
\* that is not there.
ImageToBase64Uri(image_path) ==
    LET guessed == GuessType(image_path)
        mime_type == IF guessed = "" THEN "application/octet-stream" ELSE guessed
    IN  IF IsDir(image_path)
        THEN Raise("[Errno 21] Is a directory: '" \o image_path \o "'")
        ELSE IF image_path \notin DOMAIN ImageFiles
        THEN Raise("[Errno 2] No such file or directory: '" \o image_path \o "'")
        ELSE Ok(<<"data:" \o mime_type \o ";base64,"
                  \o B64Encode(ImageFiles[image_path])>>)

(***************************************************************************)
(* PdfWorker._format_question_as_html                                      *)
(***************************************************************************)
RECURSIVE Strip(_)
\* str.strip() of blanks
Strip(s) ==
    IF Len(s) = 0 THEN ""
    ELSE IF SubSeq(s, 1, 1) = " " THEN Strip(SubSeq(s, 2, Len(s)))
    ELSE IF SubSeq(s, Len(s), Len(s)) = " " THEN Strip(SubSeq(s, 1, Len(s) - 1))
    ELSE s

\* markdown.markdown(text) of one line of plain text: a paragraph, and
\* nothing for blank text; text that is not a str has no strip().
Markdown(v) ==
    IF v.t # "str" THEN Raise(NoAttribute(v, "strip"))
    ELSE IF Strip(v.s) = "" THEN Ok(<<"">>)
    ELSE Ok(<<"<p>" \o Strip(v.s) \o "</p>">>)

QuestionHeading(question) ==
    Ok(<<"<h1>Question " \o PyStr(DictGet(question, "question_number", JStr("")))
         \o "</h1>">>)

QuestionText(question) ==
    LET md == Markdown(DictGet(question, "text", JStr("")))
    IN  IF md.raised THEN md
        ELSE Ok(<<"<div class='question-text'>" \o md.out[1] \o "</div>">>)

\* An <img> for the file at base_path/media_path when it exists.
EmbedImage(base_path, media_path, alt) ==
    LET img_path == PathJoin(base_path, media_path)
        uri == ImageToBase64Uri(img_path)
    IN  IF ~Exists(img_path) THEN Ok(<<>>)
        ELSE IF uri.raised THEN uri
        ELSE Ok(<<"<img src=\"" \o uri.out[1] \o "\" alt=\"" \o alt
                  \o "\" style=\"max-width: 100%; height: auto;\"/>">>)

QuestionImage(question) ==
    LET v == DictGet(question, "question_media_path", JNull)
    IN  IF ~Truthy(v) THEN Ok(<<>>)
        ELSE IF v.t # "str" THEN Raise(NoAttribute(v, "replace"))
        ELSE EmbedImage(DictGet(question, "base_path", JNull).s,
                        Replace(v.s, "\\", "/"), "Question Image")

RECURSIVE OptionsLoopFirst(_, _)
\* Mutant of OptionsLoop: the first option flagged correct wins.
OptionsLoopFirst(options, correct_answer_text) ==
    IF Len(options) = 0
    THEN [raised |-> FALSE, msg |-> "", out |-> <<>>,
          correct |-> correct_answer_text]
    ELSE LET option == options[1]
         IN  IF option.t # "obj"
             THEN [raised |-> TRUE, msg |-> NoAttribute(option, "get"),
                   out |-> <<>>, correct |-> correct_answer_text]
             ELSE LET text == PyStr(DictGet(option, "text", JStr("")))
                      now == IF Truthy(DictGet(option, "is_correct_answer", JBool(FALSE)))
                                /\ correct_answer_text = "N/A"
                             THEN text ELSE correct_answer_text
                      rest == OptionsLoopFirst(Tail(options), now)
                  IN  IF rest.raised THEN rest
                      ELSE [rest EXCEPT !.out = <<"<p>" \o text \o "</p>">> \o @]

RECURSIVE OptionsLoop(_, _)
\* The loop over the options: the paragraphs, and the text of the last
\* option flagged correct.
OptionsLoop(options, correct_answer_text) ==
    IF Len(options) = 0
    THEN [raised |-> FALSE, msg |-> "", out |-> <<>>,
          correct |-> correct_answer_text]
    ELSE LET option == options[1]
         IN  IF option.t # "obj"
             THEN [raised |-> TRUE, msg |-> NoAttribute(option, "get"),
                   out |-> <<>>, correct |-> correct_answer_text]
             ELSE LET text == PyStr(DictGet(option, "text", JStr("")))
                      now == IF Truthy(DictGet(option, "is_correct_answer", JBool(FALSE)))
                             THEN text ELSE correct_answer_text
                      rest == OptionsLoop(Tail(options), now)
                  IN  IF rest.raised THEN rest
                      ELSE [rest EXCEPT !.out = <<"<p>" \o text \o "</p>">> \o @]

QuestionOptions(question) ==
    LET it == Iterate(DictGet(question, "options", JList(<<>>)))
        loop == OptionsLoop(it.out, "N/A")
    IN  IF it.raised THEN it
        ELSE IF loop.raised THEN Raise(loop.msg)
        ELSE Ok(<<"<div>">> \o loop.out \o <<"</div>">>
                \o <<"<p><b>Correct Answer: " \o loop.correct \o "</b></p>">>)

QuestionLabels(question) ==
    LET v == DictGet(question, "labels", JNull)
        it == Iterate(v)
    IN  IF ~Truthy(v) THEN Ok(<<>>)
        ELSE IF it.raised THEN it
        ELSE Ok(<<"<div class='labels-container'>"
                  \o JoinStr([i \in 1..Len(it.out) |->
                        "<span class='label'>" \o PyStr(it.out[i]) \o "</span>"], " ")
                  \o "</div>">>)

IsType(element, name) ==
    LET v == DictGet(element, "type", JNull) IN v.t = "str" /\ v.s = name

RECURSIVE TableRowsOwnKeys(_, _)
\* Mutant of TableRows: each row is rendered with its own keys.
TableRowsOwnKeys(rows, headers) ==
    IF Len(rows) = 0 THEN Ok(<<>>)
    ELSE IF rows[1].t # "obj" THEN Raise(NoAttribute(rows[1], "get"))
    ELSE Then(Ok(<<"<tr>">>
                 \o [i \in 1..Len(rows[1].p) |->
                       "<td>" \o PyStr(rows[1].p[i].v) \o "</td>"]
                 \o <<"</tr>">>),
              TableRowsOwnKeys(Tail(rows), headers))

RECURSIVE TableRows(_, _)
TableRows(rows, headers) ==
    IF Len(rows) = 0 THEN Ok(<<>>)
    ELSE IF rows[1].t # "obj" THEN Raise(NoAttribute(rows[1], "get"))
    ELSE Then(Ok(<<"<tr>">>
                 \o [i \in 1..Len(headers) |->
                       "<td>" \o PyStr(DictGet(rows[1], headers[i], JStr(""))) \o "</td>"]
                 \o <<"</tr>">>),
              TableRows(Tail(rows), headers))

ExplanationTable(element) ==
    LET data == DictGet(element, "data", JObj(<<>>))
        table_data == IF data.t = "obj" THEN DictGet(data, "table", JList(<<>>))
                      ELSE JNull
    IN  IF data.t # "obj" THEN Raise(NoAttribute(data, "get"))
        ELSE IF ~Truthy(table_data) THEN Ok(<<>>)
        ELSE IF table_data.t = "obj" THEN Raise("0")
        ELSE IF table_data.t = "bool" THEN Raise("'bool' object is not subscriptable")
        ELSE IF table_data.t = "str" THEN Raise(NoAttribute(table_data, "keys"))
        ELSE IF table_data.l[1].t # "obj"
        THEN Raise(NoAttribute(table_data.l[1], "keys"))
        ELSE LET headers == DictKeys(table_data.l[1])
             IN  Then(Ok(<<"<table><thead><tr>">>
                         \o [i \in 1..Len(headers) |-> "<th>" \o headers[i] \o "</th>"]
                         \o <<"</tr></thead><tbody>">>),
                      Then(TableRows(table_data.l, headers),
                           Ok(<<"</tbody></table>">>)))

\* Mutant of ExplanationElement: an element of another type is rendered as
\* a paragraph of its content.
ExplanationElementFallback(question, element) ==
    IF element.t # "obj" THEN Raise(NoAttribute(element, "get"))
    ELSE IF IsType(element, "image")
    THEN LET v == DictGet(element, "path", JStr(""))
         IN  IF v.t # "str" THEN Raise(NoAttribute(v, "replace"))
             ELSE EmbedImage(DictGet(question, "base_path", JNull).s,
                             Replace(v.s, "\\", "/"), "Explanation Image")
    ELSE IF IsType(element, "table_processed_vlm")
    THEN ExplanationTable(element)
    ELSE Ok(<<"<p>" \o PyStr(DictGet(element, "content", JStr(""))) \o "</p>">>)

ExplanationElement(question, element) ==
    IF element.t # "obj" THEN Raise(NoAttribute(element, "get"))
    ELSE IF IsType(element, "text")
    THEN Ok(<<"<p>" \o PyStr(DictGet(element, "content", JStr(""))) \o "</p>">>)
    ELSE IF IsType(element, "image")
    THEN LET v == DictGet(element, "path", JStr(""))
         IN  IF v.t # "str" THEN Raise(NoAttribute(v, "replace"))
             ELSE EmbedImage(DictGet(question, "base_path", JNull).s,
                             Replace(v.s, "\\", "/"), "Explanation Image")
    ELSE IF IsType(element, "table_processed_vlm")
    THEN ExplanationTable(element)
    ELSE Ok(<<>>)

RECURSIVE ExplanationLoop(_, _)
ExplanationLoop(question, elements) ==
    IF Len(elements) = 0 THEN Ok(<<>>)
    ELSE Then(ExplanationElement(question, elements[1]),
              ExplanationLoop(question, Tail(elements)))

QuestionExplanation(question) ==
    LET it == Iterate(DictGet(question, "explanation_elements", JList(<<>>)))
    IN  IF it.raised THEN it
        ELSE Then(Ok(<<"<h2>Explanation</h2>">>), ExplanationLoop(question, it.out))

QuestionPageBreak == "<div class='page-break'></div>"

\* The pieces of one question's HTML, or the exception raised on the way.
FormatQuestionAsHtml(question) ==
    Then(QuestionHeading(question),
    Then(QuestionText(question),
    Then(QuestionImage(question),
    Then(QuestionOptions(question),
    Then(QuestionLabels(question),
    Then(QuestionExplanation(question),
         Ok(<<QuestionPageBreak>>)))))))

(***************************************************************************)
(* PdfWorker._generate_html                                                *)
(***************************************************************************)
GetCssStyles ==
    "@page { margin: 1cm; } .page-break { page-break-after: always; } "
    \o ".module-header-page { text-align: center; padding-top: 40%; }"

DocumentHead ==
    "<!DOCTYPE html><html lang=\"en\"><head><meta charset=\"UTF-8\">"
    \o "<title>Question Bank</title><style>" \o GetCssStyles
    \o "</style></head><body>"
DocumentTail == "</body></html>"

ModuleHeader(folder) ==
    "<div class=\"module-header-page\"><h1>" \o DisplayName(Basename(folder))
    \o "</h1></div><div class=\"page-break\"></div>"

\* Mutant of NeedsHeader: a header before every question.
NeedsHeaderAlways(folder, current_folder) == TRUE

\* A header goes before a question whose base_path is not current_folder
\* ("" stands for None: no folder yet).
NeedsHeader(folder, current_folder) == folder # current_folder

RECURSIVE QuestionsLoopStale(_, _)
\* Mutant of QuestionsLoop: current_folder is never updated.
QuestionsLoopStale(questions, current_folder) ==
    IF Len(questions) = 0 THEN Ok(<<>>)
    ELSE LET folder == DictGet(questions[1], "base_path", JNull).s
         IN  Then(IF NeedsHeader(folder, current_folder)
                  THEN Ok(<<ModuleHeader(folder)>>) ELSE Ok(<<>>),
             Then(FormatQuestionAsHtml(questions[1]),
                  QuestionsLoopStale(Tail(questions), current_folder)))

RECURSIVE QuestionsLoop(_, _)
QuestionsLoop(questions, current_folder) ==
    IF Len(questions) = 0 THEN Ok(<<>>)
    ELSE LET folder == DictGet(questions[1], "base_path", JNull).s
         IN  Then(IF NeedsHeader(folder, current_folder)
                  THEN Ok(<<ModuleHeader(folder)>>) ELSE Ok(<<>>),
             Then(FormatQuestionAsHtml(questions[1]),
                  QuestionsLoop(Tail(questions), folder)))

GenerateHtml(questions) ==
    Then(Ok(<<DocumentHead>>),
    Then(QuestionsLoop(questions, ""),
         Ok(<<DocumentTail>>)))

(***************************************************************************)
(* PdfWorker._parse_questions, one folder of the loop                      *)
(***************************************************************************)
JsonPath(folder_path) == PathJoin(folder_path, "questions.json")

ReadingMessage(folder_path) == "Reading " \o JsonPath(folder_path) \o "..."
WarningMessage(folder_path) == "Warning: questions.json not found in " \o folder_path

NoItemAssignment(q) ==
    IF q.t = "list" THEN "list indices must be integers or slices, not str"
    ELSE "'" \o TypeName(q) \o "' object does not support item assignment"

RECURSIVE TagQuestions(_, _)
\* for q in data: q['base_path'] = folder_path
TagQuestions(items, folder_path) ==
    IF Len(items) = 0 THEN Ok(<<>>)
    ELSE IF items[1].t # "obj" THEN Raise(NoItemAssignment(items[1]))
    ELSE Then(Ok(<<DictSet(items[1], "base_path", JStr(folder_path))>>),
              TagQuestions(Tail(items), folder_path))

\* What an existing questions.json adds to the questions, or the exception.
LoadFolder(folder_path) ==
    LET json_path == JsonPath(folder_path)
        loaded == JsonFiles[json_path]
        it == Iterate(loaded.data)
    IN  IF IsDir(json_path)
        THEN Raise("[Errno 21] Is a directory: '" \o json_path \o "'")
        ELSE IF loaded.raised THEN Raise(loaded.msg)
        ELSE IF it.raised THEN it
        ELSE TagQuestions(it.out, folder_path)

(***************************************************************************)
(* State.  Workers are numbered in the order the main window creates them; *)
(* pc[w] is where worker w's run() stands ("none": not created).           *)
(***************************************************************************)
VARIABLES
    folders,            \* PdfWorker.folders
    output_pdf_path,    \* PdfWorker.output_pdf_path
    is_running,         \* PdfWorker.is_running
    pc,                 \* position of run()
    idx,                \* _parse_questions: index of the next folder
    questions,          \* _parse_questions: the questions so far
    html_content,       \* run: the pieces of the assembled document
    temp_html_path,     \* run: the local temp_html_path, "" while unbound
    launch,             \* run: how launching the renderer went, "none" before
    returncode,         \* run: process.returncode, -1 while no process exited
    stderr,             \* run: what the renderer wrote to its error stream
    events,             \* the signals each worker emitted, in order
    connected,          \* whether the worker's signals have the window's slots
    tempfiles,          \* the temporary files on disk
    root_folder_path,   \* MainWindow
    output_folder_path,
    selected_folders,
    start_enabled,      \* start_button.isEnabled()
    batch_enabled,      \* batch_button.isEnabled()
    configs,            \* MainWindow.configs: name -> saved paths
    config_current,     \* config_combo.currentText()
    worker,             \* MainWindow.worker, 0 while the attribute is unset
    inbox,              \* finished signals queued to the window's thread
    closed,             \* closeEvent has run
    question,           \* _format_question_as_html: its argument
    q_html,             \* _format_question_as_html: the pieces of q_html so far
    fmt_pc,             \* position of _format_question_as_html
    fmt_error,          \* the exception that left _format_question_as_html
    tasks,              \* BatchPdfWorker.tasks: (folders, output_pdf_path) pairs
    task_index,         \* BatchPdfWorker.run: index of the next task
    results,            \* BatchPdfWorker.run: the completion message of each job
    batch_pc,           \* position of BatchPdfWorker.run
    batch_events        \* the signals the batch worker emitted, in order

workerVars == <<folders, output_pdf_path, is_running, pc, idx, questions,
                html_content, temp_html_path, launch, returncode, stderr,
                events, connected, tempfiles>>
\* the window's variables but the queue of signals
windowRest == <<root_folder_path, output_folder_path, selected_folders,
                start_enabled, batch_enabled, configs,
                config_current, worker, closed>>
windowVars == <<windowRest, inbox>>
formatVars == <<question, q_html, fmt_pc, fmt_error>>
batchVars == <<tasks, task_index, results, batch_pc, batch_events>>
vars == <<workerVars, windowVars, formatVars, batchVars>>

\* No call of _format_question_as_html under way on its own.
FormatIdle ==
    /\ question = JNull
    /\ q_html = <<>>
    /\ fmt_pc = "idle"
    /\ fmt_error = ""

\* No BatchPdfWorker constructed.
BatchIdle ==
    /\ tasks = <<>>
    /\ task_index = 1
    /\ results = <<>>
    /\ batch_pc = "none"
    /\ batch_events = <<>>

Workers == 1..MaxWorkers

\* The first item of the configuration combo box.
NoConfig == "Select a config..."

\* The folders a job may be given, and the lists of them.
FolderChoices == { "/qb/output_1", "/qb/output_2", "/qb/my_notes",
                   "/qb/bad_json", "/qb/output_10", "/qb/broken_q" }
RECURSIVE SeqsUpTo(_, _)
SeqsUpTo(S, n) ==
    IF n = 0 THEN {<<>>}
    ELSE LET shorter == SeqsUpTo(S, n - 1)
         IN  shorter \cup { Append(q, e) : q \in shorter, e \in S }
FolderLists == SeqsUpTo(FolderChoices, MaxFolders)

\* tempfile.NamedTemporaryFile(suffix='.html').name: a fresh name per call.
TempName(w) == "/tmp/tmp" \o ToString(w) \o ".html"

Progress(msg) == [sig |-> "progress", msg |-> msg]
IsFinished(e) == e.sig = "finished"
Finished(msg) == [sig |-> "finished", msg |-> msg]

\* Mutant of ErrorMessage: the exception's text without the prefix.
ErrorMessageBare(e) == e

\* f"Error: {e}"
ErrorMessage(e) == "Error: " \o e
\* f"Success! PDF saved to {self.output_pdf_path}"
SuccessMessage(path) == "Success! PDF saved to " \o path
NoQuestionsMessage == "Error: No questions found in the selected folders."

\* signals.<sig>.emit(msg) for each of sigs, in order; the finished ones are
\* queued for on_processing_finished when the window connected its slots
Emit(w, sigs) ==
    /\ events' = [events EXCEPT ![w] = @ \o sigs]
    /\ inbox' = IF connected[w] THEN inbox \o SelectSeq(sigs, IsFinished) ELSE inbox

\* threading.Thread.is_alive() of the worker's thread
IsAlive(w) == pc[w] \notin {"none", "done"}

(***************************************************************************)
(* PdfWorker.run, step by step.  The except clause is part of the step     *)
(* that raises; the finally clause is the step Cleanup.                    *)
(***************************************************************************)
RunStart(w) ==
    /\ pc[w] = "start"
    /\ Emit(w, <<Progress("Starting PDF generation process...")>>)
    /\ pc' = [pc EXCEPT ![w] = "parse"]
    /\ UNCHANGED <<folders, output_pdf_path, is_running, idx, questions,
                   html_content, temp_html_path, launch, returncode, stderr, connected, tempfiles>>
    /\ UNCHANGED windowRest
    /\ UNCHANGED <<formatVars, batchVars>>

\* Mutant of ParseStep: the file is opened without asking whether it exists.
ParseStepNoExistsCheck(folder_path) ==
    IF Exists(JsonPath(folder_path))
    THEN [raised |-> LoadFolder(folder_path).raised, msg |-> LoadFolder(folder_path).msg,
          out |-> LoadFolder(folder_path).out,
          sigs |-> <<Progress(ReadingMessage(folder_path))>>]
    ELSE [raised |-> TRUE,
          msg |-> "[Errno 2] No such file or directory: '" \o JsonPath(folder_path) \o "'",
          out |-> <<>>, sigs |-> <<Progress(ReadingMessage(folder_path))>>]

\* One iteration of the loop of _parse_questions: the signals it emits, the
\* questions it adds, or the exception it raises.
ParseStep(folder_path) ==
    LET loaded == LoadFolder(folder_path)
    IN  IF Exists(JsonPath(folder_path))
        THEN [raised |-> loaded.raised, msg |-> loaded.msg, out |-> loaded.out,
              sigs |-> <<Progress(ReadingMessage(folder_path))>>]
        ELSE [raised |-> FALSE, msg |-> "", out |-> <<>>,
              sigs |-> <<Progress(ReadingMessage(folder_path)),
                         Progress(WarningMessage(folder_path))>>]

\* Mutant of Extend: the folder's questions go in front.
ExtendFront(all_questions, data) == data \o all_questions

\* questions.extend(data)
Extend(all_questions, data) == all_questions \o data

ParseFolder(w) ==
    /\ pc[w] = "parse"
    /\ idx[w] <= Len(folders[w])
    /\ LET step == ParseStep(folders[w][idx[w]])
       IN  IF step.raised
           THEN /\ Emit(w, step.sigs \o <<Finished(ErrorMessage(step.msg))>>)
                /\ pc' = [pc EXCEPT ![w] = "finally"]
                /\ UNCHANGED <<idx, questions>>
           ELSE /\ Emit(w, step.sigs)
                /\ questions' = [questions EXCEPT ![w] = Extend(@, step.out)]
                /\ idx' = [idx EXCEPT ![w] = @ + 1]
                /\ UNCHANGED pc
    /\ UNCHANGED <<folders, output_pdf_path, is_running, html_content,
                   temp_html_path, launch, returncode, stderr, connected, tempfiles>>
    /\ UNCHANGED windowRest
    /\ UNCHANGED <<formatVars, batchVars>>

\* Mutant of NoQuestions: the empty check is missing.
NoQuestionsNever(all_questions) == FALSE

\* "not all_questions"
NoQuestions(all_questions) == all_questions = <<>>

\* What creating and writing the temporary file may come to.
TempOutcomes == {"written", "create_failed", "write_failed"}
NoSpaceMessage == "[Errno 28] No space left on device"

\* After the loop: the empty check, _generate_html and the temporary file.
Assemble(w) ==
    /\ pc[w] = "parse"
    /\ idx[w] > Len(folders[w])
    /\ LET generated == GenerateHtml(questions[w])
       IN  IF NoQuestions(questions[w])
           THEN /\ Emit(w, <<Finished(NoQuestionsMessage)>>)
                /\ pc' = [pc EXCEPT ![w] = "finally"]
                /\ UNCHANGED <<html_content, temp_html_path, tempfiles>>
           ELSE IF generated.raised
           THEN /\ Emit(w, <<Progress("Generating HTML content..."),
                             Finished(ErrorMessage(generated.msg))>>)
                /\ pc' = [pc EXCEPT ![w] = "finally"]
                /\ UNCHANGED <<html_content, temp_html_path, tempfiles>>
           ELSE \E outcome \in TempOutcomes :
                /\ html_content' = [html_content EXCEPT ![w] = generated.out]
                /\ IF outcome = "create_failed"
                   THEN UNCHANGED <<temp_html_path, tempfiles>>
                   ELSE /\ temp_html_path' = [temp_html_path EXCEPT ![w] = TempName(w)]
                        /\ tempfiles' = tempfiles \cup {TempName(w)}
                /\ IF outcome = "written"
                   THEN /\ Emit(w, <<Progress("Generating HTML content...")>>)
                        /\ pc' = [pc EXCEPT ![w] = "delegate"]
                   ELSE /\ Emit(w, <<Progress("Generating HTML content..."),
                                     Finished(ErrorMessage(NoSpaceMessage))>>)
                        /\ pc' = [pc EXCEPT ![w] = "finally"]
    /\ UNCHANGED <<folders, output_pdf_path, is_running, idx, questions,
                   launch, returncode, stderr, connected>>
    /\ UNCHANGED windowRest
    /\ UNCHANGED <<formatVars, batchVars>>

\* What launching the renderer may come to.
LaunchOutcomes == {"started", "no_script", "no_node"}
NoScriptMessage == "The 'generate_pdf.js' script was not found."
NoNodeMessage == "[Errno 2] No such file or directory: 'node'"

\* The two progress events, the check of the script and subprocess.Popen.
Delegate(w) ==
    /\ pc[w] = "delegate"
    /\ \E outcome \in LaunchOutcomes :
         /\ launch' = [launch EXCEPT ![w] = outcome]
         /\ IF outcome = "started"
            THEN /\ Emit(w, <<Progress("Generated temporary HTML file."),
                              Progress("Calling Puppeteer to generate the PDF...")>>)
                 /\ pc' = [pc EXCEPT ![w] = "communicate"]
            ELSE /\ Emit(w, <<Progress("Generated temporary HTML file."),
                              Progress("Calling Puppeteer to generate the PDF..."),
                              Finished(ErrorMessage(IF outcome = "no_script"
                                                    THEN NoScriptMessage
                                                    ELSE NoNodeMessage))>>)
                 /\ pc' = [pc EXCEPT ![w] = "finally"]
    /\ UNCHANGED <<folders, output_pdf_path, is_running, idx, questions,
                   html_content, temp_html_path, returncode, stderr, connected,
                   tempfiles>>
    /\ UNCHANGED windowRest
    /\ UNCHANGED <<formatVars, batchVars>>

\* How the renderer may exit: its return code and what it wrote to stderr.
RendererExits == { [code |-> 0, stderr |-> ""],
                   [code |-> 0, stderr |-> "DeprecationWarning: headless"],
                   [code |-> 1, stderr |-> ""],
                   [code |-> 1, stderr |-> "TimeoutError: Navigation timeout"] }
\* Mutant of ScriptFailedMessage: the error stream is left out.
ScriptFailedMessageNoStderr(err) == "Puppeteer script failed"

\* RuntimeError(f"Puppeteer script failed: {stderr}")
ScriptFailedMessage(err) == "Puppeteer script failed: " \o err

\* Mutant of SuccessSignals: finished is emitted before the last progress.
SuccessSignalsSwapped(path) ==
    <<Finished(SuccessMessage(path)), Progress("PDF generation complete.")>>

\* The last two signals of a successful run.
SuccessSignals(path) ==
    <<Progress("PDF generation complete."), Finished(SuccessMessage(path))>>

\* process.communicate() returns; the check of the return code.
Communicate(w) ==
    /\ pc[w] = "communicate"
    /\ \E exit \in RendererExits :
         /\ returncode' = [returncode EXCEPT ![w] = exit.code]
         /\ stderr' = [stderr EXCEPT ![w] = exit.stderr]
         /\ IF exit.code # 0
            THEN Emit(w, <<Finished(ErrorMessage(ScriptFailedMessage(exit.stderr)))>>)
            ELSE Emit(w, SuccessSignals(output_pdf_path[w]))
    /\ pc' = [pc EXCEPT ![w] = "finally"]
    /\ UNCHANGED <<folders, output_pdf_path, is_running, idx, questions,
                   html_content, temp_html_path, launch, connected, tempfiles>>
    /\ UNCHANGED windowRest
    /\ UNCHANGED <<formatVars, batchVars>>

\* Mutant of AfterCleanup: the finally clause removes nothing.
AfterCleanupKeep(files, path) == files

\* The temporary files left once the finally clause has run.
AfterCleanup(files, path) == IF path # "" /\ path \in files THEN files \ {path} ELSE files

\* The finally clause; the thread ends.
Cleanup(w) ==
    /\ pc[w] = "finally"
    /\ tempfiles' = AfterCleanup(tempfiles, temp_html_path[w])
    /\ pc' = [pc EXCEPT ![w] = "done"]
    /\ UNCHANGED <<folders, output_pdf_path, is_running, idx, questions,
                   html_content, temp_html_path, launch, returncode, stderr, events,
                   connected>>
    /\ UNCHANGED windowVars
    /\ UNCHANGED <<formatVars, batchVars>>

\* PdfWorker.stop
Stop(w) == is_running' = [is_running EXCEPT ![w] = FALSE]

\* MainWindow.closeEvent: stop the worker whose thread is alive and join it.
CloseEvent ==
    /\ ~closed
    /\ closed' = TRUE
    /\ IF worker # 0 /\ IsAlive(worker)
       THEN Stop(worker)
       ELSE UNCHANGED is_running
    /\ UNCHANGED <<folders, output_pdf_path, pc, idx, questions, html_content,
                   temp_html_path, launch, returncode, stderr, events, connected,
                   tempfiles>>
    /\ UNCHANGED <<root_folder_path, output_folder_path, selected_folders,
                   start_enabled, batch_enabled, configs,
                   config_current, worker, inbox>>
    /\ UNCHANGED <<formatVars, batchVars>>

Run(w) ==
    \/ RunStart(w)
    \/ ParseFolder(w)
    \/ Assemble(w)
    \/ Delegate(w)
    \/ Communicate(w)
    \/ Cleanup(w)

(***************************************************************************)
(* Spec: one job.  A caller has constructed PdfWorker(folders, path) and   *)
(* started its thread; the window may be closed at any moment.             *)
(***************************************************************************)
OutputPdfChoices == {"/out/bank.pdf"}

Init ==
    /\ \E job_folders \in FolderLists, path \in OutputPdfChoices :
         /\ folders = [w \in Workers |-> IF w = 1 THEN job_folders ELSE <<>>]
         /\ output_pdf_path = [w \in Workers |-> IF w = 1 THEN path ELSE ""]
    /\ is_running = [w \in Workers |-> w = 1]
    /\ pc = [w \in Workers |-> IF w = 1 THEN "start" ELSE "none"]
    /\ idx = [w \in Workers |-> 1]
    /\ questions = [w \in Workers |-> <<>>]
    /\ html_content = [w \in Workers |-> <<>>]
    /\ temp_html_path = [w \in Workers |-> ""]
    /\ launch = [w \in Workers |-> "none"]
    /\ returncode = [w \in Workers |-> -1]
    /\ stderr = [w \in Workers |-> ""]
    /\ events = [w \in Workers |-> <<>>]
    /\ connected = [w \in Workers |-> FALSE]
    /\ tempfiles = {}
    /\ root_folder_path = ""
    /\ output_folder_path = ""
    /\ selected_folders = <<>>
    /\ start_enabled = FALSE
    /\ batch_enabled = FALSE
    /\ configs = <<>>
    /\ config_current = NoConfig
    /\ worker = 1
    /\ inbox = <<>>
    /\ closed = FALSE
    /\ FormatIdle /\ BatchIdle

Next ==
    \/ \E w \in Workers : Run(w)
    \/ CloseEvent

Spec == Init /\ [][Next]_vars

(***************************************************************************)
(* MainWindow: the handlers of the form.  A dialog the user cancels leaves *)
(* the handler without a change where the code returns at once.            *)
(***************************************************************************)
\* longest selection the user makes in the folder dialog
MaxSelected == 1

RootChoices == {"/mini"}
OutputFolderChoices == {"/out"}
\* configs.json as load_all_configs finds it when the window is built
ConfigsOnDisk ==
    [n \in {"exam"} |-> [root_path |-> "/mini", output_folder |-> "/out"]]

RECURSIVE Dirname(_)
\* os.path.dirname
Dirname(p) ==
    IF Len(p) = 0 THEN ""
    ELSE IF SubSeq(p, Len(p), Len(p)) = "/"
         THEN (IF Len(p) = 1 THEN "/" ELSE SubSeq(p, 1, Len(p) - 1))
    ELSE Dirname(SubSeq(p, 1, Len(p) - 1))

\* The sub-folders of a folder, as os.listdir and os.path.isdir give them.
Subfolders(root) == { Basename(d) : d \in {x \in Directories : Dirname(x) = root} }

\* Sequences of at most n different elements of S.
DistinctSeqs(S, n) ==
    { q \in SeqsUpTo(S, n) : \A i, j \in 1..Len(q) : i # j => q[i] # q[j] }

\* validate_inputs, given the fields as the handler leaves them
StartValid(selected, output) == selected # <<>> /\ IsDir(output)
BatchValid(root, output) == root # "" /\ IsDir(root) /\ IsDir(output)
ValidateInputs(selected, root, output) ==
    /\ start_enabled' = StartValid(selected, output)
    /\ batch_enabled' = BatchValid(root, output)

SelectRootFolder ==
    /\ ~closed
    /\ \E folder_path \in RootChoices :
         /\ root_folder_path' = folder_path
         /\ selected_folders' = <<>>
         /\ ValidateInputs(<<>>, folder_path, output_folder_path)
    /\ UNCHANGED <<output_folder_path, configs, config_current,
                   worker, inbox, closed>>
    /\ UNCHANGED workerVars
    /\ UNCHANGED <<formatVars, batchVars>>

OpenModuleSelection ==
    /\ ~closed
    /\ root_folder_path # "" /\ Exists(root_folder_path)
    /\ LET subfolders == Subfolders(root_folder_path)
       IN  IF subfolders = {}
           THEN selected_folders' = <<>>
           ELSE \E accepted \in BOOLEAN, chosen \in DistinctSeqs(subfolders, MaxSelected) :
                  selected_folders' =
                     IF accepted
                     THEN [i \in 1..Len(chosen) |-> PathJoin(root_folder_path, chosen[i])]
                     ELSE selected_folders
    /\ ValidateInputs(selected_folders', root_folder_path, output_folder_path)
    /\ UNCHANGED <<root_folder_path, output_folder_path, configs,
                   config_current, worker, inbox, closed>>
    /\ UNCHANGED workerVars
    /\ UNCHANGED <<formatVars, batchVars>>

SelectOutputFolder ==
    /\ ~closed
    /\ \E folder_path \in OutputFolderChoices \cup {""} :
         /\ output_folder_path' = IF folder_path # "" THEN folder_path
                                  ELSE output_folder_path
         /\ ValidateInputs(selected_folders, root_folder_path, output_folder_path')
    /\ UNCHANGED <<root_folder_path, selected_folders, configs,
                   config_current, worker, inbox, closed>>
    /\ UNCHANGED workerVars
    /\ UNCHANGED <<formatVars, batchVars>>

LoadConfiguration ==
    /\ ~closed
    /\ \E config_name \in DOMAIN configs :
         /\ config_current' = config_name
         /\ root_folder_path' = configs[config_name].root_path
         /\ output_folder_path' = configs[config_name].output_folder
         /\ selected_folders' = <<>>
         /\ ValidateInputs(<<>>, configs[config_name].root_path,
                           configs[config_name].output_folder)
    /\ UNCHANGED <<configs, worker, inbox, closed>>
    /\ UNCHANGED workerVars
    /\ UNCHANGED <<formatVars, batchVars>>

\* The next PdfWorker object.
NewWorker == CHOOSE w \in Workers : pc[w] = "none" /\ \A v \in Workers : pc[v] = "none" => w <= v

StartProcessing ==
    /\ ~closed
    /\ start_enabled
    /\ \E w \in Workers : pc[w] = "none"
    /\ \E filepath \in OutputPdfChoices :
         /\ folders' = [folders EXCEPT ![NewWorker] = selected_folders]
         /\ output_pdf_path' = [output_pdf_path EXCEPT ![NewWorker] = filepath]
    /\ is_running' = [is_running EXCEPT ![NewWorker] = TRUE]
    /\ connected' = [connected EXCEPT ![NewWorker] = TRUE]
    /\ pc' = [pc EXCEPT ![NewWorker] = "start"]
    /\ worker' = NewWorker
    /\ start_enabled' = FALSE
    /\ batch_enabled' = FALSE
    /\ UNCHANGED <<idx, questions, html_content, temp_html_path, launch, returncode,
                   stderr, events, tempfiles>>
    /\ UNCHANGED <<root_folder_path, output_folder_path, selected_folders, configs,
                   config_current, inbox, closed>>
    /\ UNCHANGED <<formatVars, batchVars>>

\* on_processing_finished, on a queued finished signal
OnProcessingFinished ==
    /\ ~closed
    /\ inbox # <<>> /\ Head(inbox).sig = "finished"
    /\ inbox' = Tail(inbox)
    /\ ValidateInputs(selected_folders, root_folder_path, output_folder_path)
    /\ UNCHANGED <<root_folder_path, output_folder_path, selected_folders, configs,
                   config_current, worker, closed>>
    /\ UNCHANGED workerVars
    /\ UNCHANGED <<formatVars, batchVars>>

(***************************************************************************)
(* SpecGui: the window after its construction, its handlers, and the       *)
(* threads of the workers it starts.                                       *)
(***************************************************************************)
InitGui ==
    /\ folders = [w \in Workers |-> <<>>]
    /\ output_pdf_path = [w \in Workers |-> ""]
    /\ is_running = [w \in Workers |-> FALSE]
    /\ pc = [w \in Workers |-> "none"]
    /\ idx = [w \in Workers |-> 1]
    /\ questions = [w \in Workers |-> <<>>]
    /\ html_content = [w \in Workers |-> <<>>]
    /\ temp_html_path = [w \in Workers |-> ""]
    /\ launch = [w \in Workers |-> "none"]
    /\ returncode = [w \in Workers |-> -1]
    /\ stderr = [w \in Workers |-> ""]
    /\ events = [w \in Workers |-> <<>>]
    /\ connected = [w \in Workers |-> FALSE]
    /\ tempfiles = {}
    /\ root_folder_path = ""
    /\ output_folder_path = ""
    /\ selected_folders = <<>>
    /\ start_enabled = StartValid(<<>>, "")
    /\ batch_enabled = BatchValid("", "")
    /\ configs = ConfigsOnDisk
    /\ config_current = NoConfig
    /\ worker = 0
    /\ inbox = <<>>
    /\ closed = FALSE
    /\ FormatIdle /\ BatchIdle

NextGui ==
    \/ SelectRootFolder
    \/ OpenModuleSelection
    \/ SelectOutputFolder
    \/ LoadConfiguration
    \/ StartProcessing
    \/ OnProcessingFinished
    \/ CloseEvent
    \/ \E w \in Workers : Run(w)

SpecGui == InitGui /\ [][NextGui]_vars

\* C4 (as claimed): at most one job is live at any time: never two worker
\* threads alive at once, never two temporary documents at once.
C4_AtMostOneJobLive ==
    /\ Cardinality({w \in Workers : IsAlive(w)}) <= 1
    /\ Cardinality(tempfiles) <= 1

(***************************************************************************)
(* natural_sort_key: the key is the list re.split(r'([0-9]+)', s) gives,   *)
(* text and runs of digits in turn, the text in lower case and the digits  *)
(* as an int.  Lists compare item by item as Python compares them.         *)
(***************************************************************************)
Digits == "0123456789"
IsDigit(c) == IndexIn(c, Digits) > 0
\* The characters of the names, in the order of their code points.
CodePoints == " -.0123456789ABCDEFGHIJKLMNOPQRSTUVWXYZ_abcdefghijklmnopqrstuvwxyz"

RECURSIVE Lower(_)
\* str.lower()
Lower(s) == IF Len(s) = 0 THEN ""
            ELSE ToLower(SubSeq(s, 1, 1)) \o Lower(SubSeq(s, 2, Len(s)))

RECURSIVE ParseInt(_)
\* int(text) of a run of digits
ParseInt(text) ==
    IF Len(text) = 0 THEN 0
    ELSE ParseInt(SubSeq(text, 1, Len(text) - 1)) * 10
         + (IndexIn(SubSeq(text, Len(text), Len(text)), Digits) - 1)

RECURSIVE RunLength(_, _)
\* The length of the longest prefix of s made of digits (digits = TRUE) or
\* of no digit (digits = FALSE).
RunLength(s, digits) ==
    IF Len(s) = 0 \/ IsDigit(SubSeq(s, 1, 1)) # digits THEN 0
    ELSE 1 + RunLength(SubSeq(s, 2, Len(s)), digits)

RECURSIVE SplitKey(_, _)
SplitKey(s, digits) ==
    LET n == RunLength(s, digits)
        run == SubSeq(s, 1, n)
        rest == SubSeq(s, n + 1, Len(s))
    IN  IF digits
        THEN <<[num |-> TRUE, n |-> ParseInt(run), s |-> ""]>> \o SplitKey(rest, FALSE)
        ELSE <<[num |-> FALSE, n |-> 0, s |-> Lower(run)]>>
             \o (IF rest = "" THEN <<>> ELSE SplitKey(rest, TRUE))

NaturalSortKey(s) == SplitKey(s, FALSE)

\* a < b on str: at the first place where they differ, or a is a proper
\* prefix of b
StrLess(a, b) ==
    LET shorter == IF Len(a) < Len(b) THEN Len(a) ELSE Len(b)
        differ == {i \in 1..shorter : SubSeq(a, i, i) # SubSeq(b, i, i)}
        first == CHOOSE i \in differ : \A j \in differ : i <= j
    IN  IF differ = {} THEN Len(a) < Len(b)
        ELSE IndexIn(SubSeq(a, first, first), CodePoints)
             < IndexIn(SubSeq(b, first, first), CodePoints)

RECURSIVE KeyLess(_, _)
\* a < b on the lists natural_sort_key returns
KeyLess(a, b) ==
    IF Len(b) = 0 THEN FALSE
    ELSE IF Len(a) = 0 THEN TRUE
    ELSE IF a[1] = b[1] THEN KeyLess(Tail(a), Tail(b))
    ELSE IF a[1].num THEN a[1].n < b[1].n
    ELSE StrLess(a[1].s, b[1].s)

RECURSIVE SortNatural(_)
\* subfolders.sort(key=natural_sort_key), of names with different keys
SortNatural(names) ==
    IF names = {} THEN <<>>
    ELSE LET first == CHOOSE x \in names :
                        \A y \in names \ {x} : ~KeyLess(NaturalSortKey(y), NaturalSortKey(x))
         IN  <<first>> \o SortNatural(names \ {first})

(***************************************************************************)
(* MainWindow.start_batch_processing                                       *)
(***************************************************************************)
Task(folder_list, pdf_path) == [folders |-> folder_list, output_pdf_path |-> pdf_path]

RECURSIVE TaskLoopBreak(_, _, _)
TaskLoopBreak(names, root, output) ==
    IF Len(names) = 0 THEN <<>>
    ELSE LET folder_path == PathJoin(root, names[1])
         IN  IF ~Exists(PathJoin(folder_path, "questions.json"))
             THEN <<>>
             ELSE <<Task(<<folder_path>>,
                         PathJoin(output, DisplayName(names[1]) \o ".pdf"))>>
                  \o TaskLoopBreak(Tail(names), root, output)
\* Mutant of BatchTasks: the loop stops at the first folder without
\* questions.json (break for continue).
BatchTasksBreak(root, output) == TaskLoopBreak(SortNatural(Subfolders(root)), root, output)

RECURSIVE TaskLoop(_, _, _)
\* The loop over the sub-folders: a folder without questions.json is left
\* out, the others give a task of that one folder each.
TaskLoop(names, root, output) ==
    IF Len(names) = 0 THEN <<>>
    ELSE LET folder_path == PathJoin(root, names[1])
         IN  IF ~Exists(PathJoin(folder_path, "questions.json"))
             THEN TaskLoop(Tail(names), root, output)
             ELSE <<Task(<<folder_path>>,
                         PathJoin(output, DisplayName(names[1]) \o ".pdf"))>>
                  \o TaskLoop(Tail(names), root, output)

\* tasks, as start_batch_processing builds it
BatchTasks(root, output) == TaskLoop(SortNatural(Subfolders(root)), root, output)

\* MainWindow.worker when it is the BatchPdfWorker.
BatchWorker == MaxWorkers + 1

StartBatchProcessing ==
    /\ ~closed
    /\ batch_enabled
    /\ batch_pc = "none"
    /\ LET batch_tasks == BatchTasks(root_folder_path, output_folder_path)
       IN  \E reply \in {"Yes", "No"} :
             IF \/ root_folder_path = "" \/ ~IsDir(root_folder_path)
                \/ Subfolders(root_folder_path) = {}
                \/ batch_tasks = <<>>
                \/ reply # "Yes"
             THEN UNCHANGED <<start_enabled, batch_enabled, worker, tasks, batch_pc>>
             ELSE /\ start_enabled' = FALSE
                  /\ batch_enabled' = FALSE
                  /\ worker' = BatchWorker
                  /\ tasks' = batch_tasks
                  /\ batch_pc' = "run"
    /\ UNCHANGED <<root_folder_path, output_folder_path, selected_folders, configs,
                   config_current, inbox, closed>>
    /\ UNCHANGED <<task_index, results, batch_events>>
    /\ UNCHANGED <<workerVars, formatVars>>

(***************************************************************************)
(* What PdfWorker.run may end with for given folders and output path: the  *)
(* message of its finished signal.                                         *)
(***************************************************************************)
RECURSIVE ParseAll(_, _)
\* _parse_questions: the whole loop
ParseAll(folder_list, all_questions) ==
    IF Len(folder_list) = 0 THEN Ok(all_questions)
    ELSE LET step == ParseStep(folder_list[1])
         IN  IF step.raised THEN Raise(step.msg)
             ELSE ParseAll(Tail(folder_list), Extend(all_questions, step.out))

RunOutcomes(folder_list, pdf_path) ==
    LET parsed == ParseAll(folder_list, <<>>)
        generated == GenerateHtml(parsed.out)
    IN  IF parsed.raised THEN {ErrorMessage(parsed.msg)}
        ELSE IF NoQuestions(parsed.out) THEN {NoQuestionsMessage}
        ELSE IF generated.raised THEN {ErrorMessage(generated.msg)}
        ELSE {ErrorMessage(NoSpaceMessage),
              ErrorMessage(NoScriptMessage), ErrorMessage(NoNodeMessage)}
             \cup { IF exit.code # 0
                    THEN ErrorMessage(ScriptFailedMessage(exit.stderr))
                    ELSE SuccessMessage(pdf_path) : exit \in RendererExits }

(***************************************************************************)
(* BatchPdfWorker, which src/ does not hold: modelled from the             *)
(* specification.  It runs the jobs of its tasks one after the other, each *)
(* a job of its own as PdfWorker runs it, keeps the outcome of each and    *)
(* goes on after a failure; its finished signal gives the counts of the    *)
(* jobs that succeeded and that failed.                                    *)
(***************************************************************************)
IsSuccess(result) == StartsWith(result.message, "Success!")
IsFailure(result) == ~IsSuccess(result)
BatchSummary(succeeded, failed) ==
    "Batch complete: " \o ToString(succeeded) \o " succeeded, "
    \o ToString(failed) \o " failed"
BatchMessage(job_results) ==
    BatchSummary(Len(SelectSeq(job_results, IsSuccess)),
                 Len(SelectSeq(job_results, IsFailure)))

\* The next job of the batch, from its start to its completion message.
BatchJob ==
    /\ batch_pc = "run"
    /\ task_index <= Len(tasks)
    /\ LET task == tasks[task_index]
       IN  \E message \in RunOutcomes(task.folders, task.output_pdf_path) :
             /\ results' = Append(results, [folder |-> task.folders[1],
                                            message |-> message])
             /\ batch_events' = batch_events
                                \o <<Progress("Processing " \o task.folders[1]),
                                     Progress(message)>>
    /\ task_index' = task_index + 1
    /\ UNCHANGED <<tasks, batch_pc>>
    /\ UNCHANGED <<workerVars, windowVars, formatVars>>

\* After the last job: the finished signal of the batch.
BatchFinish ==
    /\ batch_pc = "run"
    /\ task_index > Len(tasks)
    /\ batch_events' = Append(batch_events, Finished(BatchMessage(results)))
    /\ inbox' = Append(inbox, Finished(BatchMessage(results)))
    /\ batch_pc' = "done"
    /\ UNCHANGED <<tasks, task_index, results>>
    /\ UNCHANGED <<workerVars, windowRest, formatVars>>

(***************************************************************************)
(* SpecBatch: the window with a root folder and an output folder chosen,   *)
(* the batch button and the batch worker.                                  *)
(***************************************************************************)
BatchRootChoices == {"/qb", "/mini", "/trio"}

InitBatch ==
    /\ root_folder_path \in BatchRootChoices
    /\ output_folder_path \in OutputFolderChoices
    /\ selected_folders = <<>>
    /\ start_enabled = StartValid(<<>>, output_folder_path)
    /\ batch_enabled = BatchValid(root_folder_path, output_folder_path)
    /\ configs = ConfigsOnDisk
    /\ config_current = NoConfig
    /\ worker = 0
    /\ inbox = <<>>
    /\ closed = FALSE
    /\ folders = [w \in Workers |-> <<>>]
    /\ output_pdf_path = [w \in Workers |-> ""]
    /\ is_running = [w \in Workers |-> FALSE]
    /\ pc = [w \in Workers |-> "none"]
    /\ idx = [w \in Workers |-> 1]
    /\ questions = [w \in Workers |-> <<>>]
    /\ html_content = [w \in Workers |-> <<>>]
    /\ temp_html_path = [w \in Workers |-> ""]
    /\ launch = [w \in Workers |-> "none"]
    /\ returncode = [w \in Workers |-> -1]
    /\ stderr = [w \in Workers |-> ""]
    /\ events = [w \in Workers |-> <<>>]
    /\ connected = [w \in Workers |-> FALSE]
    /\ tempfiles = {}
    /\ FormatIdle /\ BatchIdle

NextBatch ==
    \/ StartBatchProcessing
    \/ BatchJob
    \/ BatchFinish
    \/ OnProcessingFinished

SpecBatch == InitBatch /\ [][NextBatch]_vars

(***************************************************************************)
(* SpecFormat: one call of _format_question_as_html, statement by          *)
(* statement, on a record as _parse_questions tags it.  The records are    *)
(* every combination of the shapes below of the optional fields.           *)
(***************************************************************************)
TextChoices ==
    { <<>>,
      <<KV("text", JStr("What?"))>>,
      <<KV("text", JNull)>> }

MediaChoices ==
    { <<>>,
      <<KV("question_media_path", JStr("media\\q1.png"))>>,
      <<KV("question_media_path", JStr("media/gone.png"))>>,
      <<KV("question_media_path", JStr(""))>>,
      <<KV("question_media_path", JStr("media"))>>,
      <<KV("question_media_path", JNull)>> }

OptionsChoices ==
    { <<>>,
      <<KV("options", JList(<<
          JObj(<<KV("text", JStr("A")), KV("is_correct_answer", JBool(FALSE))>>),
          JObj(<<KV("text", JStr("B")), KV("is_correct_answer", JBool(TRUE))>>) >>))>>,
      <<KV("options", JList(<<
          JObj(<<KV("text", JStr("A")), KV("is_correct_answer", JBool(TRUE))>>),
          JObj(<<KV("text", JStr("B")), KV("is_correct_answer", JBool(TRUE))>>),
          JObj(<<KV("text", JStr("C")), KV("is_correct_answer", JBool(FALSE))>>) >>))>>,
      <<KV("options", JList(<<
          JObj(<<KV("text", JStr("A"))>>),
          JObj(<<KV("text", JStr("B"))>>) >>))>>,
      <<KV("options", JList(<<
          JObj(<<KV("is_correct_answer", JBool(TRUE))>>),
          JObj(<<KV("text", JStr("B")), KV("is_correct_answer", JBool(FALSE))>>) >>))>>,
      <<KV("options", JNull)>>,
      <<KV("options", JList(<<JNull>>))>> }

LabelsChoices ==
    { <<>>,
      <<KV("labels", JList(<<JStr("tag"), JStr("hard")>>))>>,
      <<KV("labels", JNull)>> }

TextElement == JObj(<<KV("type", JStr("text")), KV("content", JStr("Because"))>>)
BogusElement == JObj(<<KV("type", JStr("bogus")), KV("content", JStr("hidden"))>>)
UntypedElement == JObj(<<KV("content", JStr("untyped"))>>)
ImageElement(path) == JObj(<<KV("type", JStr("image")), KV("path", JStr(path))>>)
TableElement(rows) ==
    JObj(<<KV("type", JStr("table_processed_vlm")),
           KV("data", JObj(<<KV("table", JList(rows))>>))>>)
Row12 == JObj(<<KV("a", JStr("1")), KV("b", JStr("2"))>>)
Row34 == JObj(<<KV("a", JStr("3")), KV("c", JStr("4"))>>)
Row56 == JObj(<<KV("c", JStr("5")), KV("b", JStr("6")), KV("a", JStr("7"))>>)

ExplanationChoices ==
    { <<>>,
      <<KV("explanation_elements", JList(<<TextElement>>))>>,
      <<KV("explanation_elements", JList(<<BogusElement, TextElement, UntypedElement>>))>>,
      <<KV("explanation_elements", JList(<<TextElement, ImageElement("media/gone.png"),
                                           BogusElement, ImageElement("media\\q1.png")>>))>>,
      <<KV("explanation_elements", JList(<<JObj(<<KV("type", JStr("image"))>>)>>))>>,
      <<KV("explanation_elements", JList(<<ImageElement("")>>))>>,
      <<KV("explanation_elements", JList(<<ImageElement("media")>>))>>,
      <<KV("explanation_elements", JList(<<TableElement(<<Row12, Row34>>)>>))>>,
      <<KV("explanation_elements", JList(<<BogusElement, TableElement(<<Row34, Row56, Row12>>),
                                           TextElement>>))>>,
      <<KV("explanation_elements", JList(<<TableElement(<<>>), UntypedElement>>))>>,
      <<KV("explanation_elements",
           JList(<<JObj(<<KV("type", JStr("table_processed_vlm"))>>)>>))>>,
      <<KV("explanation_elements",
           JList(<<JObj(<<KV("type", JStr("table_processed_vlm")), KV("data", JNull)>>)>>))>>,
      <<KV("explanation_elements", JList(<<JObj(<<KV("type", JStr("text"))>>)>>))>>,
      <<KV("explanation_elements", JList(<<JNull>>))>>,
      <<KV("explanation_elements", JNull)>> }

\* The folder the records of SpecFormat come from.
RecordFolder == "/qb/output_1"

Records ==
    { JObj(<<KV("question_number", JStr("7"))>> \o t \o m \o o \o l \o e
           \o <<KV("base_path", JStr(RecordFolder))>>) :
        t \in TextChoices, m \in MediaChoices, o \in OptionsChoices,
        l \in LabelsChoices, e \in ExplanationChoices }

\* q_html += ..., or the exception leaves the function.
Advance(result, next) ==
    /\ IF result.raised
       THEN /\ fmt_pc' = "raised"
            /\ fmt_error' = result.msg
            /\ UNCHANGED q_html
       ELSE /\ q_html' = q_html \o result.out
            /\ fmt_pc' = next
            /\ UNCHANGED fmt_error
    /\ UNCHANGED question
    /\ UNCHANGED <<workerVars, windowVars, batchVars>>

FormatHeading == fmt_pc = "heading" /\ Advance(QuestionHeading(question), "text")
FormatText == fmt_pc = "text" /\ Advance(QuestionText(question), "image")
FormatImage == fmt_pc = "image" /\ Advance(QuestionImage(question), "options")
FormatOptions == fmt_pc = "options" /\ Advance(QuestionOptions(question), "labels")
FormatLabels == fmt_pc = "labels" /\ Advance(QuestionLabels(question), "explanation")
FormatExplanation ==
    fmt_pc = "explanation" /\ Advance(QuestionExplanation(question), "break")
FormatPageBreak == fmt_pc = "break" /\ Advance(Ok(<<QuestionPageBreak>>), "returned")

InitFormat ==
    /\ question \in Records
    /\ q_html = <<>>
    /\ fmt_pc = "heading"
    /\ fmt_error = ""
    /\ folders = [w \in Workers |-> <<>>]
    /\ output_pdf_path = [w \in Workers |-> ""]
    /\ is_running = [w \in Workers |-> FALSE]
    /\ pc = [w \in Workers |-> "none"]
    /\ idx = [w \in Workers |-> 1]
    /\ questions = [w \in Workers |-> <<>>]
    /\ html_content = [w \in Workers |-> <<>>]
    /\ temp_html_path = [w \in Workers |-> ""]
    /\ launch = [w \in Workers |-> "none"]
    /\ returncode = [w \in Workers |-> -1]
    /\ stderr = [w \in Workers |-> ""]
    /\ events = [w \in Workers |-> <<>>]
    /\ connected = [w \in Workers |-> FALSE]
    /\ tempfiles = {}
    /\ root_folder_path = ""
    /\ output_folder_path = ""
    /\ selected_folders = <<>>
    /\ start_enabled = FALSE
    /\ batch_enabled = FALSE
    /\ configs = <<>>
    /\ config_current = NoConfig
    /\ worker = 0
    /\ inbox = <<>>
    /\ closed = FALSE
    /\ BatchIdle

NextFormat ==
    \/ FormatHeading
    \/ FormatText
    \/ FormatImage
    \/ FormatOptions
    \/ FormatLabels
    \/ FormatExplanation
    \/ FormatPageBreak

SpecFormat == InitFormat /\ [][NextFormat]_vars

(***************************************************************************)
(* Properties of one job (Spec).                                           *)
(***************************************************************************)
FinishedOf(w) == SelectSeq(events[w], IsFinished)
HasEvent(w, e) == \E i \in 1..Len(events[w]) : events[w][i] = e
Terminal(w) == pc[w] \in {"finally", "done"}

\* C1: every run emits exactly one finished event, which is the success
\* message with the output path or a message prefixed "Error:", whatever the
\* path taken (an exception raised on the way ends in the "Error:" event).
C1_ExactlyOneCompletion ==
    \A w \in Workers :
        /\ Len(FinishedOf(w)) <= 1
        /\ pc[w] \in {"start", "parse", "delegate", "communicate"} => FinishedOf(w) = <<>>
        /\ Terminal(w) =>
             /\ Len(FinishedOf(w)) = 1
             /\ IsFinished(events[w][Len(events[w])])
             /\ LET msg == FinishedOf(w)[1].msg
                IN  \/ StartsWith(msg, "Error:")
                    \/ /\ StartsWith(msg, "Success!")
                       /\ Contains(msg, output_pdf_path[w])
                       /\ output_pdf_path[w] # ""

\* C1 witness: a finished job for each kind of end: this one the success.
C1_Witness ==
    /\ pc[1] = "done"
    /\ FinishedOf(1) = <<Finished("Success! PDF saved to /out/bank.pdf")>>

\* C2: in every terminal state of a job no temporary document of that job
\* is left on disk.
C2_TempCleanup ==
    \A w \in Workers :
        pc[w] = "done" => TempName(w) \notin tempfiles /\ temp_html_path[w] \notin tempfiles

\* C2 witness: the renderer exited non-zero after the temporary document was
\* written, and the job is over.
C2_Witness ==
    /\ pc[1] = "done"
    /\ returncode[1] = 1
    /\ temp_html_path[1] = TempName(1)

\* C3 (as claimed): once stop() has lowered is_running, the job starts no new
\* stage: it does not create the temporary document and does not launch the
\* renderer when it had not done so yet.
C3_NoNewStageAfterStop ==
    [][ \A w \in Workers :
            (pc[w] # "none" /\ ~is_running[w]) =>
                /\ (temp_html_path[w] = "" => temp_html_path'[w] = "")
                /\ (launch[w] = "none" => launch'[w] = "none") ]_vars

\* The stage of an event, by its message.
StageOf(e) ==
    CASE e.sig = "finished" -> 7
      [] e.msg = "Starting PDF generation process..." -> 1
      [] StartsWith(e.msg, "Reading ") -> 2
      [] StartsWith(e.msg, "Warning: ") -> 2
      [] e.msg = "Generating HTML content..." -> 3
      [] e.msg = "Generated temporary HTML file." -> 4
      [] e.msg = "Calling Puppeteer to generate the PDF..." -> 5
      [] e.msg = "PDF generation complete." -> 6
      [] OTHER -> 0

IsReading(e) == e.sig = "progress" /\ StartsWith(e.msg, "Reading ")
IsWarning(e) == e.sig = "progress" /\ StartsWith(e.msg, "Warning: ")
IsReadingOrWarning(e) == IsReading(e) \/ IsWarning(e)

RECURSIVE ExpectedParseEvents(_)
\* The reading and warning events of a folder list, from the file system.
ExpectedParseEvents(fs) ==
    IF Len(fs) = 0 THEN <<>>
    ELSE <<Progress("Reading " \o fs[1] \o "/questions.json...")>>
         \o (IF (fs[1] \o "/questions.json") \in DOMAIN JsonFiles THEN <<>>
             ELSE <<Progress("Warning: questions.json not found in " \o fs[1])>>)
         \o ExpectedParseEvents(Tail(fs))

\* C5: the events of a job come in stage order, the reading and warning
\* events in folder order, and the finished event is the last one.
C5_StageOrder ==
    \A w \in Workers :
        LET ev == events[w]
            parsed == IF pc[w] \in {"none", "start"} THEN 0
                      ELSE IF Terminal(w) /\ idx[w] <= Len(folders[w]) THEN idx[w]
                      ELSE idx[w] - 1
        IN  /\ \A i \in 1..Len(ev) : StageOf(ev[i]) # 0
            /\ \A i \in 1..Len(ev) : i = 1 <=> StageOf(ev[i]) = 1
            /\ \A i \in 1..(Len(ev) - 1) :
                 /\ StageOf(ev[i]) <= StageOf(ev[i + 1])
                 /\ StageOf(ev[i]) = StageOf(ev[i + 1]) => StageOf(ev[i]) = 2
                 /\ ~IsFinished(ev[i])
            /\ SelectSeq(ev, IsReadingOrWarning)
                 = ExpectedParseEvents(SubSeq(folders[w], 1, parsed))

\* C5 witness: a finished job that went through every stage, with a warning.
C5_Witness ==
    /\ pc[1] = "done"
    /\ returncode[1] = 0
    /\ \E i \in 1..Len(events[1]) : IsWarning(events[1][i])
    /\ Len(folders[1]) = 3

\* The dataset of a folder as the file system holds it: its records, none
\* for an absent file.
DatasetOf(folder) ==
    LET path == folder \o "/questions.json"
    IN  IF path \in DOMAIN JsonFiles /\ ~JsonFiles[path].raised
           /\ JsonFiles[path].data.t = "list"
        THEN JsonFiles[path].data.l
        ELSE <<>>
Missing(folder) == (folder \o "/questions.json") \notin DOMAIN JsonFiles
Unreadable(folder) == ~Missing(folder) /\ JsonFiles[folder \o "/questions.json"].raised

\* C6: when the merged record set is empty (no folder, no dataset file, or
\* only empty arrays), the job fails with the "no questions found" error as
\* its only completion event, creates no temporary document and never
\* launches the renderer.
C6_EmptyIsFatal ==
    \A w \in Workers :
        (pc[w] # "none" /\ \A i \in 1..Len(folders[w]) :
                               ~Unreadable(folders[w][i]) /\ DatasetOf(folders[w][i]) = <<>>)
        => /\ temp_html_path[w] = "" /\ TempName(w) \notin tempfiles
           /\ html_content[w] = <<>>
           /\ launch[w] = "none" /\ returncode[w] = -1
           /\ pc[w] \notin {"delegate", "communicate"}
           /\ ~HasEvent(w, Progress("Generating HTML content..."))
           /\ Terminal(w) =>
                FinishedOf(w) = <<Finished("Error: No questions found in the selected folders.")>>

\* C6 witness: a finished job over a folder without dataset file and a
\* folder with an empty array.
C6_Witness ==
    /\ pc[1] = "done"
    /\ folders[1] = <<"/qb/output_2", "/qb/my_notes">>

CountIn(seq, e) == Cardinality({i \in 1..Len(seq) : seq[i] = e})

\* C7: a folder without dataset file gives one warning event and no record,
\* and loading goes on: a job with a non-empty dataset (and no unreadable
\* one) reaches rendering wherever the folders without file stand.
C7_MissingIsNotFatal ==
    \A w \in Workers :
        LET parsed == IF pc[w] \in {"none", "start"} THEN 0
                      ELSE IF Terminal(w) /\ idx[w] <= Len(folders[w]) THEN idx[w]
                      ELSE idx[w] - 1
            done == SubSeq(folders[w], 1, parsed)
        IN  /\ \A i \in 1..Len(folders[w]) :
                 LET f == folders[w][i]
                 IN  Missing(f) =>
                       /\ CountIn(events[w], Progress("Warning: questions.json not found in " \o f))
                            = CountIn(done, f)
                       /\ \A k \in 1..Len(questions[w]) :
                            DictGet(questions[w][k], "base_path", JNull) # JStr(f)
                       /\ ~HasEvent(w, Finished("Error: " \o f))
            /\ ( /\ \A i \in 1..Len(folders[w]) : ~Unreadable(folders[w][i])
                 /\ \E i \in 1..Len(folders[w]) : DatasetOf(folders[w][i]) # <<>>
                 /\ pc[w] \notin {"none", "start", "parse"} )
               => HasEvent(w, Progress("Generating HTML content..."))

\* C7 witness: folders without file first and last, a non-empty dataset
\* between them, and the document assembled.
C7_Witness ==
    /\ folders[1] = <<"/qb/output_2", "/qb/output_10", "/qb/output_2">>
    /\ html_content[1] # <<>>
    /\ pc[1] = "delegate"

\* C8: a non-zero exit of the renderer or a failure to launch it ends the
\* job with an "Error:" message carrying the diagnostic text and never with
\* a success; a success event implies the renderer exited with code zero.
C8_RendererFailureIsFatal ==
    \A w \in Workers :
        LET succeeded == \E i \in 1..Len(events[w]) :
                            IsFinished(events[w][i]) /\ StartsWith(events[w][i].msg, "Success")
        IN  /\ succeeded => launch[w] = "started" /\ returncode[w] = 0
            /\ (returncode[w] \notin {-1, 0}) =>
                 /\ Len(FinishedOf(w)) = 1
                 /\ StartsWith(FinishedOf(w)[1].msg, "Error:")
                 /\ FinishedOf(w)[1].msg = "Error: Puppeteer script failed: " \o stderr[w]
            /\ launch[w] \in {"no_script", "no_node"} =>
                 /\ Len(FinishedOf(w)) = 1
                 /\ StartsWith(FinishedOf(w)[1].msg, "Error:")
                 /\ Contains(FinishedOf(w)[1].msg,
                             IF launch[w] = "no_script" THEN "generate_pdf.js" ELSE "node")
                 /\ returncode[w] = -1

\* C8 witness: the renderer exited with code 1 and the job is over.
C8_Witness ==
    /\ pc[1] = "done"
    /\ returncode[1] = 1
    /\ stderr[1] = "TimeoutError: Navigation timeout"
    /\ launch[1] = "started"

(***************************************************************************)
(* Reading an assembled document back: its question headings and its       *)
(* module headers.                                                         *)
(***************************************************************************)
IsQuestionHeading(piece) == StartsWith(piece, "<h1>Question ")
QuestionNumberOf(piece) ==
    SubSeq(piece, Len("<h1>Question ") + 1, Len(piece) - Len("</h1>"))
IsModuleHeader(piece) == StartsWith(piece, "<div class=\"module-header-page\"><h1>")
HeaderBreak == "<div class=\"page-break\"></div>"
HeaderTitleOf(piece) ==
    SubSeq(piece, Len("<div class=\"module-header-page\"><h1>") + 1,
           Len(piece) - Len("</h1></div>" \o HeaderBreak))
IsPageBreak(piece) == piece = QuestionPageBreak \/ piece = HeaderBreak
IsQuestionPiece(piece) ==
    ~IsModuleHeader(piece) /\ piece # DocumentHead /\ piece # DocumentTail

DocNumbers(doc) ==
    LET hs == SelectSeq(doc, IsQuestionHeading)
    IN  [i \in 1..Len(hs) |-> QuestionNumberOf(hs[i])]
DocTitles(doc) ==
    LET hs == SelectSeq(doc, IsModuleHeader)
    IN  [i \in 1..Len(hs) |-> HeaderTitleOf(hs[i])]

\* For each question heading of the document, the title of the module header
\* it stands under ("" when under none) and its number.
DocPairs(doc) ==
    LET Positions == [i \in 1..Len(doc) |-> i]
        AtHeading(i) == IsQuestionHeading(doc[i])
        headings == SelectSeq(Positions, AtHeading)
        HeadersBefore(i) == {q \in 1..(i - 1) : IsModuleHeader(doc[q])}
        Last(S) == CHOOSE q \in S : \A r \in S : r <= q
    IN  [k \in 1..Len(headings) |->
            [title |-> IF HeadersBefore(headings[k]) = {} THEN ""
                       ELSE HeaderTitleOf(doc[Last(HeadersBefore(headings[k]))]),
             number |-> QuestionNumberOf(doc[headings[k]])]]

\* The same from the file system and the folder list.
NumbersOf(folder) ==
    [i \in 1..Len(DatasetOf(folder)) |->
        PyStr(DictGet(DatasetOf(folder)[i], "question_number", JStr("")))]
FragmentsOf(folder) ==
    [i \in 1..Len(DatasetOf(folder)) |->
        FormatQuestionAsHtml(DictSet(DatasetOf(folder)[i], "base_path", JStr(folder))).out]
TitleOf(folder) == DisplayName(Basename(folder))

RECURSIVE Flatten(_)
Flatten(seqs) == IF Len(seqs) = 0 THEN <<>> ELSE seqs[1] \o Flatten(Tail(seqs))

ExpectedNumbers(fs) == Flatten([i \in 1..Len(fs) |-> NumbersOf(fs[i])])
ExpectedPieces(fs) == Flatten(Flatten([i \in 1..Len(fs) |-> FragmentsOf(fs[i])]))
ExpectedPairs(fs) ==
    Flatten([i \in 1..Len(fs) |->
        [k \in 1..Len(NumbersOf(fs[i])) |->
            [title |-> TitleOf(fs[i]), number |-> NumbersOf(fs[i])[k]]]])

HasRecords(folder) == DatasetOf(folder) # <<>>
RECURSIVE Collapse(_)
\* A list without the immediate repetitions of an element.
Collapse(fs) ==
    IF Len(fs) <= 1 THEN fs
    ELSE IF fs[1] = fs[2] THEN Collapse(Tail(fs))
    ELSE <<fs[1]>> \o Collapse(Tail(fs))
\* The folders that get a header: those with records, one per run.
HeaderFolders(fs) == Collapse(SelectSeq(fs, HasRecords))

\* C9: the questions of the assembled document are the datasets of the
\* folders, concatenated in folder-list order, each in file order: nothing is
\* dropped, repeated, reordered or deduplicated (also for a folder listed
\* more than once); the same holds of the merged records while they load.
C9_OrderPreserved ==
    \A w \in Workers :
        /\ (pc[w] = "parse" \/ html_content[w] # <<>>) =>
             [k \in 1..Len(questions[w]) |->
                 PyStr(DictGet(questions[w][k], "question_number", JStr("")))]
               = ExpectedNumbers(SubSeq(folders[w], 1, idx[w] - 1))
        /\ html_content[w] # <<>> =>
             /\ DocNumbers(html_content[w]) = ExpectedNumbers(folders[w])
             /\ SelectSeq(html_content[w], IsQuestionPiece) = ExpectedPieces(folders[w])

\* C9 witness: a document assembled from a folder listed twice around
\* another one.
C9_Witness ==
    /\ folders[1] = <<"/qb/output_1", "/qb/output_10", "/qb/output_1">>
    /\ DocNumbers(html_content[1]) = <<"1", "2", "3", "1", "2">>

\* C10 (as claimed): the module headers of the document are those of the
\* input folders in their order, each header preceded by the section (page)
\* break and followed immediately by the records of its own folder.
C10_HeadersPrecededByBreak ==
    \A w \in Workers :
        html_content[w] # <<>> =>
            LET doc == html_content[w]
            IN  /\ DocTitles(doc) = [i \in 1..Len(folders[w]) |-> TitleOf(folders[w][i])]
                /\ \A p \in 1..Len(doc) :
                     IsModuleHeader(doc[p]) =>
                        /\ p > 1 /\ IsPageBreak(doc[p - 1])
                        /\ p < Len(doc) /\ IsQuestionHeading(doc[p + 1])
                /\ DocPairs(doc) = ExpectedPairs(folders[w])

\* C10 (amended): the module headers are those of the input folders that
\* contribute records, in their order, one per run of the same folder; each
\* header carries its page break after its title and is followed immediately
\* by the records of its own folder; the first header follows the document
\* head and every later one the page break that ends the previous record.
C10_HeadersInFolderOrder ==
    \A w \in Workers :
        html_content[w] # <<>> =>
            LET doc == html_content[w]
                hf == HeaderFolders(folders[w])
            IN  /\ DocTitles(doc) = [i \in 1..Len(hf) |-> TitleOf(hf[i])]
                /\ doc[1] = DocumentHead /\ IsModuleHeader(doc[2])
                /\ \A p \in 1..Len(doc) :
                     IsModuleHeader(doc[p]) =>
                        /\ EndsWith(doc[p], "</h1></div>" \o HeaderBreak)
                        /\ p < Len(doc) /\ IsQuestionHeading(doc[p + 1])
                        /\ p = 2 \/ doc[p - 1] = QuestionPageBreak
                /\ DocPairs(doc) = ExpectedPairs(folders[w])

\* C10 witness: a document with three headers, over folders in an order that
\* is not their sorted one.
C10_Witness ==
    /\ folders[1] = <<"/qb/output_10", "/qb/output_1", "/qb/output_10">>
    /\ DocTitles(html_content[1]) = <<"Module 10", "Module 1", "Module 10">>


(***************************************************************************)
(* Properties of the question renderer (SpecFormat).                       *)
(***************************************************************************)
\* C11 (as claimed): no exception leaves _format_question_as_html whatever
\* the shape of the optional fields of the record (absent, null, or not of
\* the expected type): the call always returns a fragment, which begins with
\* the heading and ends with the page break.
C11_NoExceptionEscapes ==
    /\ fmt_pc # "raised"
    /\ fmt_pc = "returned" =>
         /\ StartsWith(q_html[1], "<h1>Question ")
         /\ q_html[Len(q_html)] = QuestionPageBreak

IsImgPiece(piece) == StartsWith(piece, "<img ")
\* The image references of a record, in the order the renderer meets them:
\* the question's, then those of the image elements of the explanation.
ElementsOf(record) ==
    LET v == DictGet(record, "explanation_elements", JList(<<>>))
    IN  IF v.t = "list" THEN v.l ELSE <<>>
IsImageElement(element) == element.t = "obj" /\ IsType(element, "image")
PathOfElement(element) ==
    LET v == DictGet(element, "path", JStr("")) IN IF v.t = "str" THEN v.s ELSE ""
PathOfQuestion(record) ==
    LET v == DictGet(record, "question_media_path", JStr(""))
    IN  IF v.t = "str" THEN v.s ELSE ""
\* The file a reference names, with "/" for "\".
Resolved(ref) == PathJoin(RecordFolder, Replace(ref, "\\", "/"))
\* A reference resolves when it names a file that can be read.
Resolves(ref) == ref # "" /\ Resolved(ref) \in DOMAIN ImageFiles
ResolvingElements(record) ==
    SelectSeq(ElementsOf(record),
              LAMBDA el : IsImageElement(el) /\ Resolves(PathOfElement(el)))

\* C12 (as claimed): an image reference that does not resolve to a readable
\* file (file missing, reference absent or empty, reference naming a
\* directory) is skipped silently: the error of opening a media file never
\* leaves the renderer, and the fragment returned holds one <img> per
\* reference that resolves and none for the others.
C12_UnresolvedMediaSkipped ==
    /\ ~(fmt_pc = "raised" /\ StartsWith(fmt_error, "[Errno"))
    /\ fmt_pc = "returned" =>
         Len(SelectSeq(q_html, IsImgPiece))
           = (IF Resolves(PathOfQuestion(question)) THEN 1 ELSE 0)
             + Len(ResolvingElements(question))


OptionsOf(record) ==
    LET v == DictGet(record, "options", JList(<<>>))
    IN  IF v.t = "list" THEN v.l ELSE <<>>
OptionText(option) ==
    IF DictHas(option, "text") THEN DictGet(option, "text", JNull).s ELSE ""
Flagged(option) ==
    DictHas(option, "is_correct_answer") /\ DictGet(option, "is_correct_answer", JNull).b
\* The text of the last option flagged correct, "N/A" when there is none.
LastCorrect(options) ==
    LET flagged == {i \in 1..Len(options) : Flagged(options[i])}
    IN  IF flagged = {} THEN "N/A"
        ELSE OptionText(options[CHOOSE i \in flagged : \A j \in flagged : j <= i])

\* C14: once the options are rendered, the fragment holds, between <div> and
\* </div>, one plain paragraph per option in the original order, the same
\* markup whether or not the option is flagged correct, and then the correct
\* answer: the text of the last option flagged correct, "N/A" when none is.
C14_LastCorrectWins ==
    \A d \in 1..Len(q_html) :
        q_html[d] = "<div>" =>
            LET options == OptionsOf(question)
                n == Len(options)
            IN  /\ Len(q_html) >= d + n + 2
                /\ \A i \in 1..n :
                     q_html[d + i] = "<p>" \o OptionText(options[i]) \o "</p>"
                /\ q_html[d + n + 1] = "</div>"
                /\ q_html[d + n + 2]
                     = "<p><b>Correct Answer: " \o LastCorrect(options) \o "</b></p>"

\* C14 witness: a fragment returned for a record whose first two options are
\* both flagged correct: the second is reported.
C14_Witness ==
    /\ fmt_pc = "returned"
    /\ Len(OptionsOf(question)) = 3
    /\ Flagged(OptionsOf(question)[1]) /\ Flagged(OptionsOf(question)[2])
    /\ \E i \in 1..Len(q_html) : q_html[i] = "<p><b>Correct Answer: B</b></p>"

IsTablePiece(piece) == StartsWith(piece, "<t") \/ StartsWith(piece, "</t")
\* The rows of a table element ("type": "table_processed_vlm").
RowsOf(element) ==
    LET data == DictGet(element, "data", JObj(<<>>))
        table == IF data.t = "obj" THEN DictGet(data, "table", JList(<<>>)) ELSE JList(<<>>)
    IN  IF table.t = "list" THEN table.l ELSE <<>>
TablesOf(record) ==
    LET els == SelectSeq(ElementsOf(record),
                         LAMBDA el : el.t = "obj" /\ IsType(el, "table_processed_vlm"))
    IN  [i \in 1..Len(els) |-> RowsOf(els[i])]
CellOf(row, key) == IF DictHas(row, key) THEN DictGet(row, key, JNull).s ELSE ""
\* The markup of a table: the columns are the keys of the first row.
ExpectedTable(rows) ==
    IF rows = <<>> THEN <<>>
    ELSE LET columns == [i \in 1..Len(rows[1].p) |-> rows[1].p[i].k]
         IN  <<"<table><thead><tr>">>
             \o [c \in 1..Len(columns) |-> "<th>" \o columns[c] \o "</th>"]
             \o <<"</tr></thead><tbody>">>
             \o Flatten([r \in 1..Len(rows) |->
                   <<"<tr>">>
                   \o [c \in 1..Len(columns) |->
                         "<td>" \o CellOf(rows[r], columns[c]) \o "</td>"]
                   \o <<"</tr>">>])
             \o <<"</tbody></table>">>

\* C15: the table markup of a returned fragment is, for each table element
\* in order, a table whose columns are the keys of its first row, in that
\* order, in every row: an empty cell where a row lacks the key, nothing for
\* a key the first row does not have; an empty table gives no markup.
C15_ColumnsFromFirstRow ==
    fmt_pc = "returned" =>
        SelectSeq(q_html, IsTablePiece)
          = Flatten([i \in 1..Len(TablesOf(question)) |->
                        ExpectedTable(TablesOf(question)[i])])

\* C15 witness: a fragment returned for the table whose second row lacks
\* "b" and has "c": an empty cell, and "4" nowhere.
C15_Witness ==
    /\ fmt_pc = "returned"
    /\ TablesOf(question) = <<<<Row12, Row34>>>>
    /\ \E i \in 1..Len(q_html) : q_html[i] = "<td></td>"
    /\ \A i \in 1..Len(q_html) : q_html[i] # "<td>4</td>"

Recognized(element) ==
    element.t # "obj" \/ IsType(element, "text") \/ IsType(element, "image")
                      \/ IsType(element, "table_processed_vlm")
\* The record with the elements of unrecognized type taken out.
WithoutUnrecognized(record) ==
    IF DictHas(record, "explanation_elements")
       /\ DictGet(record, "explanation_elements", JNull).t = "list"
    THEN DictSet(record, "explanation_elements",
                 JList(SelectSeq(ElementsOf(record), Recognized)))
    ELSE record

\* C16: an explanation element of unrecognized type adds nothing and leaves
\* its siblings as they are: the fragment returned for a record is the one
\* returned for the record without those elements, and none of their content
\* shows in it.
C16_UnrecognizedSkipped ==
    fmt_pc = "returned" =>
        /\ q_html = FormatQuestionAsHtml(WithoutUnrecognized(question)).out
        /\ \A i \in 1..Len(q_html) :
             ~Contains(q_html[i], "hidden") /\ ~Contains(q_html[i], "untyped")

\* C16 witness: a fragment returned for a record with an unrecognized
\* element before and after a text element.
C16_Witness ==
    /\ fmt_pc = "returned"
    /\ ElementsOf(question) = <<BogusElement, TextElement, UntypedElement>>
    /\ \E i \in 1..Len(q_html) : q_html[i] = "<p>Because</p>"


(***************************************************************************)
(* Section headers of the assembled document (Spec).                       *)
(***************************************************************************)
BasePathOf(record) == DictGet(record, "base_path", JNull).s
\* The records that open a maximal run of equal base_path.
RunStarts(records) ==
    {k \in 1..Len(records) :
        k = 1 \/ BasePathOf(records[k]) # BasePathOf(records[k - 1])}
HeadingPositions(doc) ==
    SelectSeq([i \in 1..Len(doc) |-> i], LAMBDA i : IsQuestionHeading(doc[i]))

\* C17: in the assembled document a section header stands right before the
\* k-th record exactly when k = 1 or the record's base_path differs from that
\* of the record before it, so the headers are as many as the maximal runs of
\* equal base_path in the merged records: none for a folder without records,
\* one for a folder listed twice in a row, a second one for a folder listed
\* again after another folder with records.
C17_HeaderPerRun ==
    \A w \in Workers :
        html_content[w] # <<>> =>
            LET doc == html_content[w]
                at == HeadingPositions(doc)
            IN  /\ Len(at) = Len(questions[w])
                /\ \A k \in 1..Len(at) :
                     IsModuleHeader(doc[at[k] - 1]) <=> k \in RunStarts(questions[w])
                /\ Len(SelectSeq(doc, IsModuleHeader))
                     = Cardinality(RunStarts(questions[w]))
                /\ \A p \in 1..Len(doc) :
                     IsModuleHeader(doc[p]) =>
                        HeaderTitleOf(doc[p])
                          = DisplayName(Basename(BasePathOf(
                               questions[w][CHOOSE k \in 1..Len(at) : at[k] = p + 1])))

\* C17 witness: the same folder before and after a folder whose dataset is
\* empty: four records in one run, one header.
C17_Witness ==
    /\ folders[1] = <<"/qb/output_1", "/qb/my_notes", "/qb/output_1">>
    /\ Len(questions[1]) = 4
    /\ html_content[1] # <<>>
    /\ Len(SelectSeq(html_content[1], IsModuleHeader)) = 1


(***************************************************************************)
(* Properties of batch mode (SpecBatch).                                   *)
(***************************************************************************)
\* The module folders of a root: its sub-folders; those with a dataset file.
ModuleFolders(root) == {PathJoin(root, name) : name \in Subfolders(root)}
WithDataset(root) ==
    {f \in ModuleFolders(root) : PathJoin(f, "questions.json") \in DOMAIN JsonFiles}
FoldersOfTasks == [i \in 1..Len(tasks) |-> tasks[i].folders[1]]
SucceededJobs == Len(SelectSeq(results, LAMBDA r : StartsWith(r.message, "Success!")))
FailedJobs == Len(SelectSeq(results, LAMBDA r : StartsWith(r.message, "Error:")))
BatchFinished == SelectSeq(batch_events, IsFinished)
\* Every job so far was attempted once, in the order of the tasks, whatever
\* the jobs before it came to; the batch ends after the last one only.
JobsInOrder ==
    /\ Len(results) = task_index - 1
    /\ Len(results) <= Len(tasks)
    /\ \A i \in 1..Len(results) : results[i].folder = FoldersOfTasks[i]
    /\ \A i \in 1..Len(results) :
         results[i].message \in RunOutcomes(tasks[i].folders, tasks[i].output_pdf_path)
    /\ batch_pc = "run" => BatchFinished = <<>>
    /\ batch_pc = "done" =>
         /\ Len(results) = Len(tasks)
         /\ Len(BatchFinished) = 1
         /\ batch_events[Len(batch_events)] = BatchFinished[1]
         /\ SucceededJobs + FailedJobs = Len(results)
         /\ BatchFinished[1].msg
              = "Batch complete: " \o ToString(SucceededJobs) \o " succeeded, "
                \o ToString(FailedJobs) \o " failed"

\* C13 (as claimed): batch mode never aborts early, every job is attempted
\* once and in order, and the counts of succeeded and failed jobs of the
\* final message together account for every module folder of the root.
C13_CountsCoverEveryFolder ==
    /\ JobsInOrder
    /\ batch_pc = "done" =>
         SucceededJobs + FailedJobs = Cardinality(ModuleFolders(root_folder_path))

\* C13 (amended): batch mode never aborts early, every job is attempted once
\* and in order, and the counts of the final message account for every job;
\* the jobs are the module folders that hold a dataset file, in natural
\* order, one folder per job, and the module folders without one are left
\* out before the batch starts and are in no count.
C13_CountsCoverEveryJob ==
    /\ JobsInOrder
    /\ batch_pc # "none" =>
         /\ {FoldersOfTasks[i] : i \in 1..Len(tasks)} = WithDataset(root_folder_path)
         /\ Len(tasks) = Cardinality(WithDataset(root_folder_path))
         /\ \A i \in 1..Len(tasks) : Len(tasks[i].folders) = 1
         /\ \A i, j \in 1..Len(tasks) :
              i < j => KeyLess(NaturalSortKey(Basename(FoldersOfTasks[i])),
                               NaturalSortKey(Basename(FoldersOfTasks[j])))
    /\ batch_pc = "done" =>
         SucceededJobs + FailedJobs = Cardinality(WithDataset(root_folder_path))

\* C13 witness: the batch over /qb is over: output_2, without dataset file,
\* was left out, the first three jobs failed, and the two after them
\* succeeded.
C13_Witness ==
    /\ batch_pc = "done"
    /\ root_folder_path = "/qb"
    /\ FoldersOfTasks = <<"/qb/bad_json", "/qb/broken_q", "/qb/my_notes",
                           "/qb/output_1", "/qb/output_10">>
    /\ FailedJobs = 3 /\ SucceededJobs = 2
    /\ results[5].message = "Success! PDF saved to /out/Module 10.pdf"

====
